---- MODULE Spec2Model ----
(***************************************************************************)
(* Reach-frequency engine: ReachFrequencyCalculator of                     *)
(* src/src/reach_frequency_calculator.py as a state machine.               *)
(*                                                                         *)
(* Number representation.  Python floats are modelled in fixed point, each *)
(* operation rounding towards zero:                                        *)
(*   counts (reach, impressions, universe)   whole persons                 *)
(*   percentages                             1/PctScale of a percent       *)
(*   max_reach_percent (input)               tenths of a percent           *)
(*   global_overlap_factor, penetration,                                   *)
(*   efficiency factors (inputs)             hundredths                    *)
(*   frequency                               1/FreqScale                   *)
(*   exp(), weighted efficiency, decay x     1/Unit                        *)
(***************************************************************************)
EXTENDS Integers, Sequences, FiniteSets, TLC

VARIABLES
    args,     \* the arguments handed to __init__ (the PlanInput)
    ctor,     \* "pending", "ok" or "ValueError": how __init__ ended
    engine,   \* the instance's fields, NoEngine until __init__ assigned them
    pc,       \* per caller: where it is inside run_all_calculations
    loc,      \* per caller: locals of calculate_effective_reach's loop
    rec,      \* per caller: the record run_all_calculations returned, by value
    runs,     \* per caller: how many times it called run_all_calculations
    objs      \* which dict objects the engine and the returned records hold

vars == <<args, ctor, engine, pc, loc, rec, runs, objs>>

(***************************************************************************)
(* Fixed-point arithmetic                                                  *)
(***************************************************************************)
PctScale == 1000
FreqScale == 1000
Unit == 1000000

Min(a, b) == IF a <= b THEN a ELSE b
Max(a, b) == IF a >= b THEN a ELSE b

\* <<q, r>> with a * b = q * c + r and 0 <= r < c, computed without forming
\* a * b (a, b >= 0, c > 0): binary descent on b.
RECURSIVE MulDivQR(_, _, _)
MulDivQR(a, b, c) ==
    IF b = 0 THEN <<0, 0>>
    ELSE LET h  == MulDivQR(a, b \div 2, c)
             q2 == 2 * h[1] + (IF b % 2 = 1 THEN a \div c ELSE 0)
             r2 == 2 * h[2] + (IF b % 2 = 1 THEN a % c ELSE 0)
         IN  <<q2 + (r2 \div c), r2 % c>>

\* floor(a * b / c): a float product/quotient, rounded towards zero.
MulDiv(a, b, c) == IF a = 0 \/ b = 0 THEN 0 ELSE MulDivQR(a, b, c)[1]

\* 1/e in units of 1/Unit.
EInv == 367879

\* Number of Taylor terms of exp on the fractional part of the exponent.
ExpTerms == 10

\* The i-th Taylor term f^i / i! of exp(f), f in units of 1/Unit, 0 <= f < Unit.
RECURSIVE ExpTerm(_, _)
ExpTerm(f, i) ==
    IF i = 0 THEN Unit ELSE MulDiv(ExpTerm(f, i - 1), f, i * Unit)

\* exp(-f) for 0 <= f < Unit: the alternating series, in units of 1/Unit.
RECURSIVE ExpNegSeries(_, _)
ExpNegSeries(f, i) ==
    IF i > ExpTerms THEN 0
    ELSE (IF i % 2 = 0 THEN ExpTerm(f, i) ELSE 0 - ExpTerm(f, i))
         + ExpNegSeries(f, i + 1)

\* v * e^(-k) for whole k >= 0.
RECURSIVE TimesEInvPow(_, _)
TimesEInvPow(v, k) ==
    IF k = 0 \/ v = 0 THEN v ELSE TimesEInvPow(MulDiv(v, EInv, Unit), k - 1)

\* np.exp(-n / d) for n >= 0, d > 0, in units of 1/Unit: e^(-floor(n/d)) times
\* the series on the fractional part.  Underflows to 0 like the double does.
ExpNeg(n, d) ==
    TimesEInvPow(Max(0, ExpNegSeries(MulDiv(n % d, Unit, d), 0)), n \div d)


(***************************************************************************)
(* Inputs                                                                  *)
(***************************************************************************)
Channels == {"A", "B"}

\* dict iteration order of distributed_impressions (insertion order).
ChanOrder == <<"A", "B">>

AllCallers == {1, 2}

\* How many times one caller may call run_all_calculations on the engine.
MaxRuns == 2

\* Every mapping from a subset of Channels into vals: a Python dict.
Dicts(vals) == UNION {[d -> vals] : d \in SUBSET Channels}

EmptyDict == [c \in {} |-> 0]

\* d[k] = v, as a dict assignment does: the key is added or overwritten.
Put(d, k, v) == [c \in DOMAIN d \cup {k} |-> IF c = k THEN v ELSE d[c]]

UniverseValues == {999999, 1000000}
ImpressionTotals == {9999, 10000, 3000000, 50000000}
\* tenths of a percent: -0.1, 0, 50.0, 99.8, 99.9
MaxReachValues == {0 - 1, 0, 500, 998, 999}
\* hundredths: 0.34, 0.35, 0.6, 0.61
OverlapValues == {34, 35, 60, 61}
ChannelImpressionValues == {0, 20000000}
\* hundredths: 0, 0.8
PenetrationValues == {0, 80}
\* hundredths: 0, 0.7
EfficiencyValues == {0, 70}

PlanInputs ==
    [total_universe : UniverseValues,
     total_impressions : ImpressionTotals,
     max_reach_percent : MaxReachValues,
     global_overlap_factor : OverlapValues,
     distributed_impressions : Dicts(ChannelImpressionValues),
     channel_penetration : Dicts(PenetrationValues),
     efficiency_factors : Dicts(EfficiencyValues)]

(***************************************************************************)
(* __init__                                                                *)
(***************************************************************************)
MinUniverse == 1000000
MinImpressions == 10000
\* 99.8, in tenths of a percent
MaxReachCeiling == 998
\* 0.35 and 0.6, in hundredths
MinOverlap == 35
MaxOverlap == 60

\* Mutant of Raises: the upper overlap bound taken as exclusive.
RaisesExclusive(a) ==
    \/ a.total_universe < MinUniverse
    \/ a.total_impressions < MinImpressions
    \/ ~(0 <= a.max_reach_percent /\ a.max_reach_percent <= MaxReachCeiling)
    \/ ~(MinOverlap <= a.global_overlap_factor /\ a.global_overlap_factor < MaxOverlap)

\* The four checks of __init__, in order: TRUE when one of them raises.
Raises(a) ==
    \/ a.total_universe < MinUniverse
    \/ a.total_impressions < MinImpressions
    \/ ~(0 <= a.max_reach_percent /\ a.max_reach_percent <= MaxReachCeiling)
    \/ ~(MinOverlap <= a.global_overlap_factor /\ a.global_overlap_factor <= MaxOverlap)

NoEngine == [absent |-> TRUE]

\* The fields __init__ assigns once validation passed.
NewEngine(a) ==
    [total_universe |-> a.total_universe,
     total_impressions |-> a.total_impressions,
     max_reach_percent |-> a.max_reach_percent,
     global_overlap_factor |-> a.global_overlap_factor,
     distributed_impressions |-> a.distributed_impressions,
     channel_penetration |-> a.channel_penetration,
     efficiency_factors |-> a.efficiency_factors,
     channel_reach |-> EmptyDict,
     channel_contributions |-> EmptyDict,
     raw_total_reach |-> 0,
     overlapped_reach |-> 0,
     final_reach |-> 0,
     average_frequency |-> 0,
     effective_reach |-> EmptyDict]


(***************************************************************************)
(* calculate_channel_reach                                                 *)
(***************************************************************************)
\* Mutant of ChannelCeiling: the universe taken for the channel's ceiling.
ChannelCeilingUniverse(penetration, universe) == universe

\* penetration * total_universe, in persons.
ChannelCeiling(penetration, universe) == MulDiv(penetration, universe, 100)

\* The reach of one channel with impressions > 0 and a ceiling > 0:
\* the saturating curve, capped at the ceiling and floored at 0.
SaturatedReach(impressions, ceiling) ==
    LET reach == MulDiv(ceiling, Unit - ExpNeg(impressions, ceiling), Unit)
    IN  Max(0, Min(reach, ceiling))

\* -impressions / max_possible_reach with a zero divisor: Python raises
\* ZeroDivisionError (int / float 0.0 and int / int 0 alike).
DivisionRaises(impressions, ceiling) == impressions > 0 /\ ceiling = 0

\* Mutant of ReachLoop: the else branch attached to the outer if, so that a
\* channel without penetration is recorded with reach 0.
RECURSIVE ReachLoopDanglingElse(_, _, _, _)
ReachLoopDanglingElse(e, k, cr, total) ==
    IF k > Len(ChanOrder)
    THEN [channel_reach |-> cr, total |-> total, raised |-> FALSE]
    ELSE LET channel == ChanOrder[k]
         IN  IF channel \notin DOMAIN e.distributed_impressions
             THEN ReachLoopDanglingElse(e, k + 1, cr, total)
             ELSE IF channel \notin DOMAIN e.channel_penetration
             THEN ReachLoopDanglingElse(e, k + 1, Put(cr, channel, 0), total)
             ELSE LET impressions == e.distributed_impressions[channel]
                      ceiling == ChannelCeiling(e.channel_penetration[channel],
                                                e.total_universe)
                  IN  IF DivisionRaises(impressions, ceiling)
                      THEN [channel_reach |-> cr, total |-> total, raised |-> TRUE]
                      ELSE IF impressions > 0
                      THEN LET reach == SaturatedReach(impressions, ceiling)
                           IN  ReachLoopDanglingElse(e, k + 1, Put(cr, channel, reach),
                                                     total + reach)
                      ELSE ReachLoopDanglingElse(e, k + 1, Put(cr, channel, 0), total)

\* The for loop over distributed_impressions.items(), from position k of the
\* iteration order on, with self.channel_reach = cr and the local
\* total_channel_reach = total so far.  Stops where an iteration raises.
RECURSIVE ReachLoop(_, _, _, _)
ReachLoop(e, k, cr, total) ==
    IF k > Len(ChanOrder)
    THEN [channel_reach |-> cr, total |-> total, raised |-> FALSE]
    ELSE LET channel == ChanOrder[k]
         IN  IF channel \notin DOMAIN e.distributed_impressions
                \/ channel \notin DOMAIN e.channel_penetration
             THEN ReachLoop(e, k + 1, cr, total)
             ELSE LET impressions == e.distributed_impressions[channel]
                      ceiling == ChannelCeiling(e.channel_penetration[channel],
                                                e.total_universe)
                  IN  IF DivisionRaises(impressions, ceiling)
                      THEN [channel_reach |-> cr, total |-> total, raised |-> TRUE]
                      ELSE IF impressions > 0
                      THEN LET reach == SaturatedReach(impressions, ceiling)
                           IN  ReachLoop(e, k + 1, Put(cr, channel, reach), total + reach)
                      ELSE ReachLoop(e, k + 1, Put(cr, channel, 0), total)

\* (reach / total_channel_reach) * 100
Share(reach, total) == MulDiv(reach, 100 * PctScale, total)

\* self.channel_contributions after the contribution loops: every key of
\* channel_reach is assigned, keys already there are kept.
Contributions(old, cr, total) ==
    [c \in DOMAIN old \cup DOMAIN cr |->
        IF c \in DOMAIN cr
        THEN (IF total > 0 THEN Share(cr[c], total) ELSE 0)
        ELSE old[c]]

\* calculate_channel_reach: the engine after the call, and whether it raised.
CalculateChannelReach(e) ==
    LET l == ReachLoop(e, 1, e.channel_reach, 0)
    IN  IF l.raised
        THEN [engine |-> [e EXCEPT !.channel_reach = l.channel_reach], raised |-> TRUE]
        ELSE [engine |-> [e EXCEPT !.channel_reach = l.channel_reach,
                                   !.channel_contributions =
                                       Contributions(e.channel_contributions,
                                                     l.channel_reach, l.total)],
              raised |-> FALSE]

(***************************************************************************)
(* calculate_total_reach                                                   *)
(***************************************************************************)
\* sum(d.values())
RECURSIVE SumValues(_)
SumValues(d) ==
    IF DOMAIN d = {} THEN 0
    ELSE LET c == CHOOSE x \in DOMAIN d : TRUE
         IN  d[c] + SumValues([x \in DOMAIN d \ {c} |-> d[x]])

\* 0.5, in hundredths: efficiency_factors.get(channel, 0.5)
DefaultEfficiency == 50

EfficiencyOf(e, channel) ==
    IF channel \in DOMAIN e.efficiency_factors
    THEN e.efficiency_factors[channel] ELSE DefaultEfficiency

\* The reach-weighted average efficiency, in units of 1/Unit.
WeightedEfficiency(e) ==
    LET total_weight == SumValues(e.channel_reach)
        weighted == SumValues([c \in DOMAIN e.channel_reach |->
                                  EfficiencyOf(e, c) * e.channel_reach[c]])
    IN  IF total_weight > 0
        THEN MulDiv(weighted, Unit \div 100, total_weight)
        ELSE DefaultEfficiency * (Unit \div 100)

\* (max_reach_percent / 100) * total_universe, in persons.
ReachCap(e) == MulDiv(e.max_reach_percent, e.total_universe, 1000)

\* Mutant of CapFinalReach: the ceiling left out.
CapFinalReachNoCeiling(reach_after_efficiency, max_possible_reach) ==
    Max(0, reach_after_efficiency)

\* min(max(0, reach_after_efficiency), max_possible_reach)
CapFinalReach(reach_after_efficiency, max_possible_reach) ==
    Min(Max(0, reach_after_efficiency), max_possible_reach)

CalculateTotalReach(e) ==
    IF DOMAIN e.channel_reach = {}
    THEN [e EXCEPT !.raw_total_reach = 0, !.final_reach = 0]
    ELSE LET raw == SumValues(e.channel_reach)
             overlap_reach == MulDiv(raw, 100 - e.global_overlap_factor, 100)
             reach_after_efficiency == MulDiv(overlap_reach, WeightedEfficiency(e), Unit)
         IN  [e EXCEPT !.raw_total_reach = raw,
                       !.final_reach = CapFinalReach(reach_after_efficiency, ReachCap(e))]

(***************************************************************************)
(* calculate_frequency                                                     *)
(***************************************************************************)
\* 1.0 and 20.0
MinFrequency == 1
MaxFrequency == 20

\* total_impressions / final_reach in units of 1/FreqScale; quotients past
\* FrequencyOverflow are reported as FrequencyOverflow (the clamp follows).
FrequencyOverflow == 1000
RawFrequency(total_impressions, final_reach) ==
    IF total_impressions >= FrequencyOverflow * final_reach
    THEN FrequencyOverflow * FreqScale
    ELSE MulDiv(total_impressions, FreqScale, final_reach)

\* Mutant of ClampFrequency: the lower bound left out.
ClampFrequencyNoFloor(raw_frequency) ==
    Min(raw_frequency, MaxFrequency * FreqScale)

\* min(max(min_frequency, raw_frequency), max_frequency)
ClampFrequency(raw_frequency) ==
    Min(Max(MinFrequency * FreqScale, raw_frequency), MaxFrequency * FreqScale)

CalculateFrequency(e) ==
    IF e.final_reach <= 0
    THEN [e EXCEPT !.average_frequency = 0]
    ELSE [e EXCEPT !.average_frequency =
              ClampFrequency(RawFrequency(e.total_impressions, e.final_reach))]

(***************************************************************************)
(* calculate_effective_reach                                               *)
(***************************************************************************)
\* max_frequency: int = 6
DefaultMaxFrequency == 6

\* f"{i}+"
Key(i) == ToString(i) \o "+"

\* (count / total_universe) * 100
PercentOfUniverse(count, universe) == MulDiv(count, 100 * PctScale, universe)

\* max_reach_percent in the units of a percentage.
MaxReachPercent(e) == e.max_reach_percent * (PctScale \div 10)

\* x = 1 / max(1.0, average_frequency), in units of 1/Unit.
DecayRate(average_frequency) ==
    (Unit * FreqScale) \div Max(1 * FreqScale, average_frequency)

\* Mutant of Decay: multiplied by x instead of 1 - x.
DecayByRate(previous_reach, x) == MulDiv(previous_reach, x, Unit)

\* current_reach = previous_reach * (1 - x)
Decay(previous_reach, x) == MulDiv(previous_reach, Unit - x, Unit)

\* min(max(0.0, current_reach), self.max_reach_percent)
ClampReachPercent(current_reach, max_reach_percent) ==
    Min(Max(0, current_reach), max_reach_percent)

\* The early return: nothing is computed and no field is assigned.
EffectiveReachIsZero(e) == e.final_reach <= 0 \/ e.average_frequency <= 0

\* One iteration of the loop, for threshold i: the ladder and current_reach after it.
LadderStep(e, ladder, i, previous_reach, x) ==
    LET current_reach == Decay(previous_reach, x)
    IN  [ladder |-> Put(ladder, Key(i),
                        ClampReachPercent(current_reach, MaxReachPercent(e))),
         current_reach |-> current_reach]

\* The last threshold of range(2, max_frequency + 1).
LastThreshold(max_frequency) == max_frequency

\* The whole loop from threshold i on.
RECURSIVE LadderLoop(_, _, _, _, _, _)
LadderLoop(e, ladder, i, previous_reach, x, max_frequency) ==
    IF i > LastThreshold(max_frequency) THEN ladder
    ELSE LET s == LadderStep(e, ladder, i, previous_reach, x)
         IN  LadderLoop(e, s.ladder, i + 1, s.current_reach, x, max_frequency)

CalculateEffectiveReach(e, max_frequency) ==
    IF EffectiveReachIsZero(e) THEN e
    ELSE [e EXCEPT !.effective_reach =
              LadderLoop(e, EmptyDict, 2,
                         PercentOfUniverse(e.final_reach, e.total_universe),
                         DecayRate(e.average_frequency), max_frequency)]

(***************************************************************************)
(* run_all_calculations                                                    *)
(***************************************************************************)
NoRecord == [absent |-> TRUE]

\* The dict run_all_calculations returns, read off the fields.
ResultRecord(e) ==
    [channel_contributions |-> e.channel_contributions,
     raw_reach_percent |-> PercentOfUniverse(e.raw_total_reach, e.total_universe),
     overlapped_reach_percent |-> PercentOfUniverse(e.overlapped_reach, e.total_universe),
     final_reach |-> e.final_reach,
     final_reach_percent |-> PercentOfUniverse(e.final_reach, e.total_universe),
     average_frequency |-> e.average_frequency,
     effective_reach |-> e.effective_reach]

\* One uninterrupted run_all_calculations on engine e: what it returns, or
\* NoRecord when calculate_channel_reach raised.
RunAllCalculations(e) ==
    LET s1 == CalculateChannelReach(e)
    IN  IF s1.raised THEN NoRecord
        ELSE ResultRecord(
                 CalculateEffectiveReach(
                     CalculateFrequency(CalculateTotalReach(s1.engine)),
                     DefaultMaxFrequency))


(***************************************************************************)
(* The state machine                                                       *)
(***************************************************************************)
NoLocals == [i |-> 0, current_reach |-> 0, x |-> 0]

(***************************************************************************)
(* Object identity.  self.channel_contributions is one dict for the life   *)
(* of the engine: it is assigned in __init__ only and written in place.    *)
(* self.effective_reach is a dict that calculate_effective_reach replaces  *)
(* by a new one (self.effective_reach = {}) past its early return.  The    *)
(* returned record holds the two dicts themselves, not copies.             *)
(*   current   which dict self.effective_reach is: its number, counted     *)
(*             from the one __init__ made                                  *)
(*   held      per caller: the number of the dict its record holds as      *)
(*             effective_reach (NotHeld before a record was returned)      *)
(*   replaced  the contents of the dicts self.effective_reach no longer    *)
(*             is and a record still holds                                 *)
(***************************************************************************)
NotHeld == 0 - 1

NoObjects ==
    [current |-> 0,
     held |-> [c \in AllCallers |-> NotHeld],
     replaced |-> [n \in {} |-> EmptyDict]]

\* The replaced dicts some record still holds: the others are unreachable.
Reachable(replaced, held) ==
    [n \in {m \in DOMAIN replaced : \E c \in AllCallers : held[c] = m} |-> replaced[n]]

\* self.effective_reach = {}: the field is a new dict; the dict it was, with
\* the contents it had, stays with the records that hold it.
Rebind(o, contents) ==
    [o EXCEPT !.current = @ + 1,
              !.replaced = Reachable(
                  [n \in DOMAIN o.replaced \cup {o.current} |->
                      IF n = o.current THEN contents ELSE o.replaced[n]],
                  o.held)]

\* 'effective_reach': self.effective_reach in the returned dict: the record
\* of caller c holds the dict the field is now.
Hold(o, c) ==
    LET held == [o.held EXCEPT ![c] = o.current]
    IN  [o EXCEPT !.held = held, !.replaced = Reachable(o.replaced, held)]

InitWith(inputs) ==
    /\ args \in inputs
    /\ ctor = "pending"
    /\ engine = NoEngine
    /\ pc = [c \in AllCallers |-> "idle"]
    /\ loc = [c \in AllCallers |-> NoLocals]
    /\ rec = [c \in AllCallers |-> NoRecord]
    /\ runs = [c \in AllCallers |-> 0]
    /\ objs = NoObjects

Init == InitWith(PlanInputs)

\* ReachFrequencyCalculator(...): raise before any assignment, or assign every field.
Construct ==
    /\ ctor = "pending"
    /\ IF Raises(args)
       THEN ctor' = "ValueError" /\ engine' = engine
       ELSE ctor' = "ok" /\ engine' = NewEngine(args)
    /\ UNCHANGED <<args, pc, loc, rec, runs, objs>>

\* A caller enters run_all_calculations.
Call(c) ==
    /\ ctor = "ok"
    /\ pc[c] \in {"idle", "done", "raised"}
    /\ runs[c] < MaxRuns
    /\ runs' = [runs EXCEPT ![c] = @ + 1]
    /\ pc' = [pc EXCEPT ![c] = "channel_reach"]
    /\ UNCHANGED <<args, ctor, engine, loc, rec, objs>>

\* self.calculate_channel_reach()
StepChannelReach(c) ==
    /\ pc[c] = "channel_reach"
    /\ LET r == CalculateChannelReach(engine)
       IN  /\ engine' = r.engine
           /\ pc' = [pc EXCEPT ![c] = IF r.raised THEN "raised" ELSE "total_reach"]
    /\ UNCHANGED <<args, ctor, loc, rec, runs, objs>>

\* self.calculate_total_reach()
StepTotalReach(c) ==
    /\ pc[c] = "total_reach"
    /\ engine' = CalculateTotalReach(engine)
    /\ pc' = [pc EXCEPT ![c] = "frequency"]
    /\ UNCHANGED <<args, ctor, loc, rec, runs, objs>>

\* self.calculate_frequency()
StepFrequency(c) ==
    /\ pc[c] = "frequency"
    /\ engine' = CalculateFrequency(engine)
    /\ pc' = [pc EXCEPT ![c] = "effective_reach"]
    /\ UNCHANGED <<args, ctor, loc, rec, runs, objs>>

\* self.calculate_effective_reach() up to the loop: the early return, or
\* self.effective_reach = {} and the locals set.
StepEffectiveReach(c) ==
    /\ pc[c] = "effective_reach"
    /\ IF EffectiveReachIsZero(engine)
       THEN /\ pc' = [pc EXCEPT ![c] = "return"]
            /\ UNCHANGED <<engine, loc, objs>>
       ELSE /\ engine' = [engine EXCEPT !.effective_reach = EmptyDict]
            /\ objs' = Rebind(objs, engine.effective_reach)
            /\ loc' = [loc EXCEPT ![c] =
                          [i |-> 2,
                           current_reach |-> PercentOfUniverse(engine.final_reach,
                                                               engine.total_universe),
                           x |-> DecayRate(engine.average_frequency)]]
            /\ pc' = [pc EXCEPT ![c] = "loop"]
    /\ UNCHANGED <<args, ctor, rec, runs>>

\* One iteration of the loop: self.effective_reach[f"{i}+"] = ...
StepLadder(c) ==
    /\ pc[c] = "loop"
    /\ LET s == LadderStep(engine, engine.effective_reach, loc[c].i,
                           loc[c].current_reach, loc[c].x)
       IN  /\ engine' = [engine EXCEPT !.effective_reach = s.ladder]
           /\ IF loc[c].i >= LastThreshold(DefaultMaxFrequency)
              THEN /\ loc' = [loc EXCEPT ![c] = NoLocals]
                   /\ pc' = [pc EXCEPT ![c] = "return"]
              ELSE /\ loc' = [loc EXCEPT ![c] = [@ EXCEPT !.i = @ + 1,
                                                         !.current_reach = s.current_reach]]
                   /\ pc' = pc
    /\ UNCHANGED <<args, ctor, rec, runs, objs>>

\* return {...}: the record is read off the fields as they are now.
Return(c) ==
    /\ pc[c] = "return"
    /\ rec' = [rec EXCEPT ![c] = ResultRecord(engine)]
    /\ pc' = [pc EXCEPT ![c] = "done"]
    /\ objs' = Hold(objs, c)
    /\ UNCHANGED <<args, ctor, engine, loc, runs>>

Step(c) ==
    \/ Call(c)
    \/ StepChannelReach(c)
    \/ StepTotalReach(c)
    \/ StepFrequency(c)
    \/ StepEffectiveReach(c)
    \/ StepLadder(c)
    \/ Return(c)

\* One caller: every call runs to its end before the next begins.
Next == Construct \/ Step(1)

Spec == Init /\ [][Next]_vars


(***************************************************************************)
(* Two callers on one engine: their stage steps interleave freely.         *)
(***************************************************************************)
ConcInputs ==
    [total_universe : {1000000},
     total_impressions : {3000000},
     max_reach_percent : {998},
     global_overlap_factor : {35},
     distributed_impressions : {[c \in Channels |-> 0],
                                [c \in Channels |-> 20000000]},
     channel_penetration : {[c \in Channels |-> 80]},
     efficiency_factors : {[c \in Channels |-> 70]}]

InitConc == InitWith(ConcInputs)

NextConc == Construct \/ \E c \in AllCallers : Step(c)

SpecConc == InitConc /\ [][NextConc]_vars

(***************************************************************************)
(* Properties                                                              *)
(***************************************************************************)
\* Caller c holds the record its latest run_all_calculations returned.
Returned(c) == pc[c] = "done"

LadderKeys == {"2+", "3+", "4+", "5+", "6+"}

HundredPercent == 100 * PctScale

\* The channels of the input that have both impressions and a penetration.
CountedChannels ==
    DOMAIN args.distributed_impressions \cap DOMAIN args.channel_penetration

InPercentRange(p) == 0 <= p /\ p <= HundredPercent

RECURSIVE PenetrationPercent(_)
PenetrationPercent(chs) ==
    IF chs = {} THEN 0
    ELSE LET ch == CHOOSE x \in chs : TRUE
         IN  args.channel_penetration[ch] * PctScale + PenetrationPercent(chs \ {ch})

C3_FrequencyBand ==
    \A c \in AllCallers : Returned(c) =>
        IF rec[c].final_reach > 0
        THEN /\ 1 * FreqScale <= rec[c].average_frequency
             /\ rec[c].average_frequency <= 20 * FreqScale
        ELSE rec[c].average_frequency = 0

\* A returned record with total_impressions far below final_reach: the
\* quotient is under 1 and the frequency reported is the lower bound.
C3_Witness ==
    \E c \in AllCallers :
        /\ Returned(c)
        /\ rec[c].final_reach > 10 * args.total_impressions
        /\ rec[c].average_frequency = 1 * FreqScale

\* C4: when final_reach <= 0 or average_frequency <= 0 the returned record
\* has final_reach 0, average_frequency 0 and an effective_reach mapping with
\* every key "2+" .. "6+" mapped to 0; with all impressions 0 the raw reach
\* is 0 as well.
C4_ZeroLadder ==
    \A c \in AllCallers : Returned(c) =>
        /\ (\A ch \in DOMAIN args.distributed_impressions :
                args.distributed_impressions[ch] = 0)
              => rec[c].raw_reach_percent = 0 /\ rec[c].final_reach = 0
        /\ (rec[c].final_reach <= 0 \/ rec[c].average_frequency <= 0)
              => /\ rec[c].final_reach = 0
                 /\ rec[c].average_frequency = 0
                 /\ DOMAIN rec[c].effective_reach = LadderKeys
                 /\ \A k \in LadderKeys : rec[c].effective_reach[k] = 0

\* C5: run_all_calculations on an accepted input never ends in an exception.
C5_NeverRaises ==
    \A c \in AllCallers : pc[c] # "raised"

\* C6: the constructor raises exactly when total_universe < 1,000,000 or
\* total_impressions < 10,000 or max_reach_percent is outside [0, 99.8] or
\* global_overlap_factor is outside [0.35, 0.6] (bounds inclusive); when it
\* raises no field was assigned and no stage runs.
C6_ValidationExact ==
    ctor # "pending" =>
        /\ ctor = "ValueError" <=>
              \/ args.total_universe < 1000000
              \/ args.total_impressions < 10000
              \/ args.max_reach_percent < 0
              \/ args.max_reach_percent > 998
              \/ args.global_overlap_factor < 35
              \/ args.global_overlap_factor > 60
        /\ ctor = "ValueError" =>
              /\ engine = NoEngine
              /\ \A c \in AllCallers : pc[c] = "idle" /\ rec[c] = NoRecord
        /\ ctor = "ok" => engine # NoEngine

\* The constructor raised on an input whose only fault is an overlap factor of
\* 0.61, every other parameter sitting on its inclusive bound.
C6_Witness ==
    /\ ctor = "ValueError"
    /\ engine = NoEngine
    /\ args.total_universe = 1000000
    /\ args.total_impressions = 10000
    /\ args.max_reach_percent = 998
    /\ args.global_overlap_factor = 61

\* C7: with a positive raw reach, overlapped_reach is raw_total_reach *
\* (1 - global_overlap_factor), and the returned overlapped_reach_percent is
\* raw_reach_percent * (1 - global_overlap_factor): positive and below
\* raw_reach_percent.
C7_OverlapReported ==
    \A c \in AllCallers : (Returned(c) /\ rec[c].raw_reach_percent > 0) =>
        /\ engine.overlapped_reach =
              MulDiv(engine.raw_total_reach, 100 - args.global_overlap_factor, 100)
        /\ rec[c].overlapped_reach_percent =
              MulDiv(rec[c].raw_reach_percent, 100 - args.global_overlap_factor, 100)
        /\ rec[c].overlapped_reach_percent > 0
        /\ rec[c].overlapped_reach_percent < rec[c].raw_reach_percent


\* C8: with positive final reach and average frequency, the returned ladder
\* holds exactly the keys "2+" .. "6+", starts at or below
\* final_reach_percent, never increases, and each value is the previous one
\* (final_reach_percent for "2+") times (1 - 1 / max(1, average_frequency)).
C8_LadderDecays ==
    \A c \in AllCallers :
        (Returned(c) /\ rec[c].final_reach > 0 /\ rec[c].average_frequency > 0) =>
            LET er == rec[c].effective_reach
                f == rec[c].average_frequency
                keep == Unit - (Unit * FreqScale) \div (IF f > FreqScale THEN f ELSE FreqScale)
                prev(k) == IF k = 2 THEN rec[c].final_reach_percent
                           ELSE er[ToString(k - 1) \o "+"]
            IN  /\ DOMAIN er = LadderKeys
                /\ er["2+"] <= rec[c].final_reach_percent
                /\ er["2+"] >= er["3+"] /\ er["3+"] >= er["4+"]
                /\ er["4+"] >= er["5+"] /\ er["5+"] >= er["6+"]
                /\ \A k \in 2..6 :
                      er[ToString(k) \o "+"] = MulDiv(prev(k), keep, Unit)

\* A returned ladder that decays strictly, level after level, down to a
\* positive "6+" value: the frequency is strictly inside (1, 20).
C8_Witness ==
    \E c \in AllCallers :
        /\ Returned(c)
        /\ rec[c].average_frequency > 1 * FreqScale
        /\ rec[c].average_frequency < 20 * FreqScale
        /\ DOMAIN rec[c].effective_reach = LadderKeys
        /\ rec[c].effective_reach["2+"] > rec[c].effective_reach["3+"]
        /\ rec[c].effective_reach["5+"] > rec[c].effective_reach["6+"]
        /\ rec[c].effective_reach["6+"] > 0

\* The input without channel ch in its impressions and efficiency factors.
Without(a, ch) ==
    [a EXCEPT !.distributed_impressions =
                  [x \in DOMAIN a.distributed_impressions \ {ch} |->
                      a.distributed_impressions[x]],
              !.efficiency_factors =
                  [x \in DOMAIN a.efficiency_factors \ {ch} |->
                      a.efficiency_factors[x]]]

\* C9: a channel with impressions but no penetration entry is no key of
\* channel_reach or channel_contributions, and the returned record is the
\* one returned for the input without that channel.
C9_UnknownChannelIgnored ==
    \A c \in AllCallers : Returned(c) =>
        \A ch \in DOMAIN args.distributed_impressions \ DOMAIN args.channel_penetration :
            /\ ch \notin DOMAIN engine.channel_reach
            /\ ch \notin DOMAIN engine.channel_contributions
            /\ ch \notin DOMAIN rec[c].channel_contributions
            /\ rec[c] = RunAllCalculations(NewEngine(Without(args, ch)))

\* A returned record for an input where one channel has impressions and an
\* efficiency factor but no penetration, beside a channel with positive reach.
C9_Witness ==
    \E c \in AllCallers :
        /\ Returned(c)
        /\ rec[c].final_reach > 0
        /\ \E ch \in DOMAIN args.distributed_impressions \ DOMAIN args.channel_penetration :
              /\ args.distributed_impressions[ch] > 0
              /\ ch \in DOMAIN args.efficiency_factors
              /\ args.efficiency_factors[ch] = 0

\* C10: whatever the interleaving of two callers on one engine, the record
\* each gets back is the record one uninterrupted run on a fresh engine returns.
C10_RecordsAsSequential ==
    \A c \in AllCallers : Returned(c) =>
        rec[c] = RunAllCalculations(NewEngine(args))


(***************************************************************************)
(* The owner of the engine between runs: it changes the impressions the    *)
(* engine reads, calls a stage directly, and writes into a record it got.  *)
(***************************************************************************)
\* No run_all_calculations is in progress.
Quiet == ctor = "ok" /\ \A c \in AllCallers : pc[c] \in {"idle", "done", "raised"}

\* The dict object the record of caller c holds as effective_reach is the
\* one self.effective_reach is now.
SharesLadder(c) == objs.held[c] = objs.current

\* The record of caller c as reading it now gives it: the scalars it was
\* built with, and the two dicts it holds with their contents as of now.
Seen(c) ==
    [rec[c] EXCEPT !.channel_contributions = engine.channel_contributions,
                   !.effective_reach = IF SharesLadder(c) THEN engine.effective_reach
                                       ELSE objs.replaced[objs.held[c]]]

\* engine.distributed_impressions[ch] = v: the impressions mapping is the
\* caller's own dict, kept by reference in __init__.
SetImpressions ==
    /\ Quiet
    /\ \E ch \in DOMAIN engine.distributed_impressions, v \in ChannelImpressionValues :
          /\ engine.distributed_impressions[ch] # v
          /\ engine' = [engine EXCEPT !.distributed_impressions[ch] = v]
    /\ UNCHANGED <<args, ctor, pc, loc, rec, runs, objs>>

\* engine.calculate_channel_reach(), called on its own.
CallChannelReach ==
    /\ Quiet
    /\ engine' = CalculateChannelReach(engine).engine
    /\ UNCHANGED <<args, ctor, pc, loc, rec, runs, objs>>

\* record[m][k] = 0 by the caller that got the record: a write into the dict
\* the record holds, which is the engine's own unless it was replaced.
ModifyRecord(c) ==
    /\ Quiet
    /\ rec[c] # NoRecord
    /\ \E m \in {"channel_contributions", "effective_reach"} :
          \E k \in DOMAIN Seen(c)[m] :
              /\ Seen(c)[m][k] # 0
              /\ rec' = [rec EXCEPT ![c][m] = Put(Seen(c)[m], k, 0)]
              /\ IF m = "channel_contributions"
                 THEN /\ engine' = [engine EXCEPT !.channel_contributions[k] = 0]
                      /\ objs' = objs
                 ELSE IF SharesLadder(c)
                 THEN /\ engine' = [engine EXCEPT !.effective_reach[k] = 0]
                      /\ objs' = objs
                 ELSE /\ engine' = engine
                      /\ objs' = [objs EXCEPT !.replaced[objs.held[c]][k] = 0]
    /\ UNCHANGED <<args, ctor, pc, loc, runs>>

InitAlias == InitWith(ConcInputs)

NextAlias ==
    Construct \/ Step(1) \/ SetImpressions \/ CallChannelReach \/ ModifyRecord(1)

SpecAlias == InitAlias /\ [][NextAlias]_vars

\* C11: a returned record holds no dict of the engine.  No step other than
\* the caller's own write into the record (or a new return to that caller)
\* changes what the record reads as, and a write into the record changes no
\* field of the engine.
C11_RecordDetached ==
    [][/\ \A c \in AllCallers :
             (rec[c] # NoRecord /\ rec'[c] = rec[c]) => Seen(c)' = Seen(c)
       /\ (rec' # rec /\ pc' = pc) => engine' = engine]_vars

====
